---- MODULE Spec2Model ----
(***************************************************************************)
(* Model of 3bodyproblem.py: the equations-of-motion evaluator             *)
(* (three_body_equations), the integrator call (run_simulation) and the    *)
(* Tk/matplotlib playback handlers of create_gui.                          *)
(*                                                                         *)
(* Floating-point values are modelled exactly: a finite float is an        *)
(* element of Q[sqrt(f) : f squarefree], the field in which                *)
(* m * d / |d|^3 lives for lattice positions, and NaN is a separate value. *)
(* Rounding is not modelled.                                               *)
(***************************************************************************)
EXTENDS Integers, Sequences, FiniteSets, TLC

\* ------------------------------------------------------------------ bounds
\* positions handed to the evaluator lie on the lattice -MaxCoord..MaxCoord
MaxCoord == 1
\* number of evaluation times requested by start_simulation (10000 in the
\* program, np.linspace(0, 100, 10000)), scaled down
NumSamples == 3
\* frames delivered by the animation timer (range(100_000_000_000) in the
\* program), scaled down
MaxFrame == 7

\* ------------------------------------------------------- exact arithmetic
Abs(x) == IF x < 0 THEN -x ELSE x

RECURSIVE GCD(_, _)
GCD(a, b) == IF b = 0 THEN a ELSE GCD(b, a % b)

\* the rational n/d, d # 0, in lowest terms with a positive denominator
QNorm(n, d) ==
    LET g == GCD(Abs(n), Abs(d))
        s == IF d < 0 THEN -1 ELSE 1
    IN  <<(s * n) \div g, (s * d) \div g>>

QZero == <<0, 1>>
QAdd(p, q) == QNorm(p[1] * q[2] + q[1] * p[2], p[2] * q[2])
QScale(k, p) == QNorm(k * p[1], p[2])

\* the squared distances |d|^2 > 0 of lattice differences d
MaxDiff == 2 * MaxCoord
Dist2Values == {a * a + b * b : a \in 0..MaxDiff, b \in 0..MaxDiff} \ {0}

\* largest s with s*s dividing D, so that sqrt(D) = s * sqrt(D / s^2)
SquarePartOf ==
    [D \in Dist2Values |->
        CHOOSE s \in 1..D : /\ D % (s * s) = 0
                            /\ \A u \in (s + 1)..D : D % (u * u) # 0]
SquarePart(D) == SquarePartOf[D]

SquareFreePartOf == [D \in Dist2Values |-> D \div (SquarePartOf[D] * SquarePartOf[D])]
SquareFreePart(D) == SquareFreePartOf[D]

\* the square roots that can occur in a norm of a lattice difference
Radicands == {SquareFreePartOf[D] : D \in Dist2Values}

\* a float: NaN, or the exact real  SUM_f val[f] * sqrt(f)
FZero == [nan |-> FALSE, val |-> [f \in Radicands |-> QZero]]
NaN == [nan |-> TRUE, val |-> [f \in Radicands |-> QZero]]

FromInt(k) ==
    [nan |-> FALSE,
     val |-> [f \in Radicands |-> IF f = 1 THEN <<k, 1>> ELSE QZero]]

\* IEEE addition: NaN is absorbing
FAdd(a, b) ==
    IF a.nan \/ b.nan THEN NaN
    ELSE [nan |-> FALSE, val |-> [f \in Radicands |-> QAdd(a.val[f], b.val[f])]]

\* k * a for an integer k
FScale(k, a) ==
    IF a.nan THEN NaN
    ELSE [nan |-> FALSE, val |-> [f \in Radicands |-> QScale(k, a.val[f])]]

\* np.linalg.norm(d)**2 for an integer 2-vector d
Norm2(d) == d[1] * d[1] + d[2] * d[2]

\* k / np.linalg.norm(d)**3 for an integer k and an integer 2-vector d
\* with D = Norm2(d).  With D = s^2 * f:  k / (D * sqrt(D)) = (k*s / D^2) * sqrt(f).
\* A zero norm comes only from d = (0, 0), the numerator m * d is then 0 as
\* well, and numpy evaluates 0.0 / 0.0 to nan (a RuntimeWarning, no exception).
DivNormCubed(k, D) ==
    IF D = 0 THEN NaN
    ELSE [nan |-> FALSE,
          val |-> [f \in Radicands |->
                     IF f = SquareFreePart(D)
                     THEN QNorm(k * SquarePart(D), D * D)
                     ELSE QZero]]

\* --------------------------------------------------- three_body_equations
\* rj - ri on 2-vectors
VSub(rj, ri) == <<rj[1] - ri[1], rj[2] - ri[2]>>

\* mj * (rj - ri) / np.linalg.norm(rj - ri)**3, a 2-vector of floats
compute_acceleration(ri, rj, mj) ==
    LET d == VSub(rj, ri)
    IN  <<DivNormCubed(mj * d[1], Norm2(d)), DivNormCubed(mj * d[2], Norm2(d))>>

\* a + b on 2-vectors of floats
VAdd(a, b) == <<FAdd(a[1], b[1]), FAdd(a[2], b[2])>>

\* three_body_equations with each pull weighted by the mass of the pulled
\* body instead of the pulling one
three_body_equations_own_mass(tt, yy, mm) ==
    LET r1 == <<yy[1], yy[2]>>
        r2 == <<yy[3], yy[4]>>
        r3 == <<yy[5], yy[6]>>
        v1 == <<FromInt(yy[7]), FromInt(yy[8])>>
        v2 == <<FromInt(yy[9]), FromInt(yy[10])>>
        v3 == <<FromInt(yy[11]), FromInt(yy[12])>>
        a1 == VAdd(compute_acceleration(r1, r2, mm[1]), compute_acceleration(r1, r3, mm[1]))
        a2 == VAdd(compute_acceleration(r2, r1, mm[2]), compute_acceleration(r2, r3, mm[2]))
        a3 == VAdd(compute_acceleration(r3, r1, mm[3]), compute_acceleration(r3, r2, mm[3]))
    IN  v1 \o v2 \o v3 \o a1 \o a2 \o a3

\* three_body_equations with one mass index mistyped in a3
three_body_equations_mistyped(tt, yy, mm) ==
    LET r1 == <<yy[1], yy[2]>>
        r2 == <<yy[3], yy[4]>>
        r3 == <<yy[5], yy[6]>>
        v1 == <<FromInt(yy[7]), FromInt(yy[8])>>
        v2 == <<FromInt(yy[9]), FromInt(yy[10])>>
        v3 == <<FromInt(yy[11]), FromInt(yy[12])>>
        a1 == VAdd(compute_acceleration(r1, r2, mm[2]), compute_acceleration(r1, r3, mm[3]))
        a2 == VAdd(compute_acceleration(r2, r1, mm[1]), compute_acceleration(r2, r3, mm[3]))
        a3 == VAdd(compute_acceleration(r3, r1, mm[1]), compute_acceleration(r3, r2, mm[3]))
    IN  v1 \o v2 \o v3 \o a1 \o a2 \o a3

\* y is the 12-slot state (python slot k is y[k + 1]), masses the 3 masses
\* (python masses[k] is masses[k + 1])
three_body_equations(tt, yy, mm) ==
    LET r1 == <<yy[1], yy[2]>>
        r2 == <<yy[3], yy[4]>>
        r3 == <<yy[5], yy[6]>>
        v1 == <<FromInt(yy[7]), FromInt(yy[8])>>
        v2 == <<FromInt(yy[9]), FromInt(yy[10])>>
        v3 == <<FromInt(yy[11]), FromInt(yy[12])>>
        a1 == VAdd(compute_acceleration(r1, r2, mm[2]), compute_acceleration(r1, r3, mm[3]))
        a2 == VAdd(compute_acceleration(r2, r1, mm[1]), compute_acceleration(r2, r3, mm[3]))
        a3 == VAdd(compute_acceleration(r3, r1, mm[1]), compute_acceleration(r3, r2, mm[2]))
    IN  v1 \o v2 \o v3 \o a1 \o a2 \o a3


\* a body pair occupies one position: the case numpy turns into nan
Singular(yy) ==
    \/ (yy[1] = yy[3] /\ yy[2] = yy[4])
    \/ (yy[1] = yy[5] /\ yy[2] = yy[6])
    \/ (yy[3] = yy[5] /\ yy[4] = yy[6])

HasNaN(f) == \E k \in DOMAIN f : f[k].nan

\* ------------------------------------------------------------------ state
VARIABLES
    gui,                \* the tk variables behind the sliders, by name
    preview,            \* what update_initial_positions drew last
    start_button,       \* state of the Start button: "normal" / "disabled"
    ani,                \* the FuncAnimation: None, or event source + frame iterator
    masses,             \* start_simulation's local masses
    initial_conditions, \* start_simulation's local initial_conditions
    t,                  \* start_simulation's local t (result.t)
    y,                  \* start_simulation's local y (result.y), y[row][column]
    sizes,              \* start_simulation's local sizes
    lines,              \* the three marker artists
    trails,             \* the three trail artists
    shown,              \* per frame number: what update(frame) drew
    exc,                \* exception raised inside a callback, "none" if none
    arg_t, arg_y, arg_masses, arg_t_span, arg_t_eval,  \* arguments of a direct call
    ret,                \* what three_body_equations returned
    rs,                 \* what run_simulation returned or raised
    pc                  \* "gui": event loop; "call"/"done": a direct call

guivars == <<gui, preview, start_button, ani, masses, initial_conditions, t, y,
             sizes, lines, trails, shown, exc>>
callvars == <<arg_t, arg_y, arg_masses, arg_t_span, arg_t_eval, ret, rs>>
vars == <<guivars, callvars, pc>>

\* ---------------------------------------------------- solve_ivp (library)
\* Outcomes of scipy.integrate.solve_ivp(three_body_equations, t_span, y0,
\* t_eval=t_eval, args=(masses,)) as its documented contract gives them; the
\* adaptive step control itself is not modelled, so how far the solver gets
\* and what it reports at later times are nondeterministic.
SeqMin(a, b) == IF a < b THEN a ELSE b
SeqMax(a, b) == IF a < b THEN b ELSE a

\* states the solver may report at a time other than t0: the initial state
\* displaced by one of a few offsets
SolverShifts == {0, 1}
Displaced(y0, s) == [r \in 1..12 |-> y0[r] + s]

NoResult == [raised |-> "none", status |-> 0, nfev |-> 0, t |-> <<>>, y |-> <<>>]

solve_ivp(mm, y0, t_span, t_eval) ==
    LET t0 == t_span[1]
        tf == t_span[2]
        out_of_span == \E k \in DOMAIN t_eval :
                          \/ t_eval[k] < SeqMin(t0, tf)
                          \/ t_eval[k] > SeqMax(t0, tf)
        unsorted == \E k \in 1..(Len(t_eval) - 1) :
                          \/ (tf > t0 /\ t_eval[k + 1] - t_eval[k] <= 0)
                          \/ (tf < t0 /\ t_eval[k + 1] - t_eval[k] >= 0)
        \* the first requested time is reported as soon as one step is
        \* accepted when it is t0 itself; otherwise the solver may stop before it
        least == IF Len(t_eval) >= 1 /\ t_eval[1] = t0 THEN 1 ELSE 0
    IN  IF out_of_span \/ unsorted
        THEN \* ValueError raised while checking t_eval, before the solver is built
             {[NoResult EXCEPT !.raised = "ValueError"]}
        ELSE IF HasNaN(three_body_equations(t0, y0, mm))
        THEN \* a nan derivative makes the initial step size nan; the step
             \* loop then never accepts a step and never gives up: no return
             {}
        ELSE {[raised |-> "none",
               status |-> IF n = Len(t_eval) THEN 0 ELSE -1,
               nfev |-> 1,
               t |-> SubSeq(t_eval, 1, n),
               y |-> IF n = 0 THEN <<>>
                     ELSE [r \in 1..12 |->
                            [c \in 1..n |->
                               IF t_eval[c] = t0 THEN y0[r]
                               ELSE Displaced(y0, sh[c])[r]]]] :
                 n \in (IF t0 = tf THEN Len(t_eval) ELSE least)..Len(t_eval),
                 sh \in [1..Len(t_eval) -> SolverShifts]}

\* --------------------------------------------------------- run_simulation
\* return result.t, result.y : status, success and message are dropped
run_simulation(mm, ic, t_span, t_eval) ==
    {[raised |-> r.raised, nfev |-> r.nfev, t |-> r.t, y |-> r.y] :
        r \in solve_ivp(mm, ic, t_span, t_eval)}


\* ------------------------------------------------------------ create_gui
SliderNames == {"mass1", "mass2", "mass3",
                "x1", "y1", "x2", "y2", "x3", "y3",
                "vx1", "vy1", "vx2", "vy2", "vx3", "vy3"}

\* tk.DoubleVar(value=...) of each slider variable
Defaults ==
    [n \in SliderNames |->
        CASE n \in {"mass1", "mass2", "mass3"} -> 1
          [] n = "x1" -> -1  [] n = "y1" -> 0
          [] n = "x2" -> 1   [] n = "y2" -> 0
          [] n = "x3" -> 0   [] n = "y3" -> 1
          [] n = "vx1" -> 0  [] n = "vy1" -> 1
          [] n = "vx2" -> 0  [] n = "vy2" -> -1
          [] n = "vx3" -> 1  [] n = "vy3" -> 0]

\* the values a slider is dragged to: a few points of its from_..to range
\* (masses 0.1..10, positions and velocities -5..5)
SliderValues(n) ==
    CASE n = "mass1" -> {1, 2}
      [] n = "x1" -> {-1, 1}
      [] n = "vy2" -> {-1, 0}
      [] OTHER -> {Defaults[n]}

None == [exists |-> FALSE, running |-> FALSE, frame |-> 0]

\* ax.plot(pos, 'o', markersize=mass * 10) for the three bodies
InitialPositions(g) ==
    <<[x |-> g["x1"], y |-> g["y1"], markersize |-> g["mass1"] * 10],
      [x |-> g["x2"], y |-> g["y2"], markersize |-> g["mass2"] * 10],
      [x |-> g["x3"], y |-> g["y3"], markersize |-> g["mass3"] * 10]>>

\* the list built body by body (position then velocity of each body)
InitialConditionsPerBody(g) ==
    <<g["x1"], g["y1"], g["vx1"], g["vy1"],
      g["x2"], g["y2"], g["vx2"], g["vy2"],
      g["x3"], g["y3"], g["vx3"], g["vy3"]>>

\* the list start_simulation hands to run_simulation
InitialConditions(g) ==
    <<g["x1"], g["y1"], g["x2"], g["y2"], g["x3"], g["y3"],
      g["vx1"], g["vy1"], g["vx2"], g["vy2"], g["vx3"], g["vy3"]>>

\* np.linspace(0, 100, 10000) and t_span = (0, 100), on the scaled grid
TimeGrid == [k \in 1..NumSamples |-> k - 1]
TimeSpan == <<0, NumSamples - 1>>

\* idx taken modulo the requested number of samples instead of len(t)
FrameIndexRequested(frame, n) == frame % NumSamples

\* idx stopping at the last sample instead of wrapping
FrameIndexClamped(frame, n) == IF frame < n THEN frame ELSE n - 1

\* idx = frame % len(t), for n = len(t) > 0
FrameIndex(frame, n) == frame % n

\* row[:idx], the slice that leaves the current sample out
TrailSliceExclusive(row, idx) == SubSeq(row, 1, IF idx < Len(row) THEN idx ELSE Len(row))

\* row[:idx+1]; a numpy slice clips at the end of the row
TrailSlice(row, idx) == SubSeq(row, 1, SeqMin(idx + 1, Len(row)))

\* One call of update(frame) on the closure's t, y, sizes: the exception it
\* raises, or the data it puts in the marker and trail artists.  Body i of
\* the code (0, 1, 2) is b = i + 1, rows y[2*i], y[2*i+1] are yy[2b-1], yy[2b],
\* column idx is index idx + 1.
DrawFrame(frame, tt, yy, sz) ==
    IF Len(tt) = 0
    THEN [exc |-> "ZeroDivisionError", idx |-> 0, lines |-> <<>>, trails |-> <<>>]
    ELSE LET idx == FrameIndex(frame, Len(tt))
         IN  IF \/ Len(yy) < 6
                \/ \E r \in 1..6 : idx + 1 > Len(yy[r])
             THEN [exc |-> "IndexError", idx |-> idx, lines |-> <<>>, trails |-> <<>>]
             ELSE [exc |-> "none",
                   idx |-> idx,
                   lines |-> [b \in 1..3 |->
                                [xdata |-> <<yy[2 * b - 1][idx + 1]>>,
                                 ydata |-> <<yy[2 * b][idx + 1]>>,
                                 markersize |-> sz[b]]],
                   trails |-> [b \in 1..3 |->
                                [xdata |-> TrailSlice(yy[2 * b - 1], idx),
                                 ydata |-> TrailSlice(yy[2 * b], idx)]]]

\* a slider is moved: the tk variable is written and the slider's command
\* runs update_initial_positions
move_slider ==
    /\ pc = "gui"
    /\ \E n \in SliderNames : \E v \in SliderValues(n) :
          /\ gui[n] # v
          /\ gui' = [gui EXCEPT ![n] = v]
          /\ preview' = InitialPositions(gui')
    /\ UNCHANGED <<start_button, ani, masses, initial_conditions, t, y, sizes,
                   lines, trails, shown, exc, callvars, pc>>

\* The Start button's command; the button reacts only while enabled.  The
\* handler returns only if run_simulation does.  canvas.draw() at its end
\* emits the first draw event of the new animation, which draws frame 0 of a
\* fresh frame sequence and starts the timer.
start_simulation ==
    /\ pc = "gui"
    /\ start_button = "normal"
    /\ LET m == <<gui["mass1"], gui["mass2"], gui["mass3"]>>
           ic == InitialConditions(gui)
       IN  \E r \in run_simulation(m, ic, TimeSpan, TimeGrid) :
             LET sz == [b \in 1..3 |-> m[b] * 10]
                 d == DrawFrame(0, r.t, r.y, sz)
             IN  /\ r.raised = "none"
                 /\ start_button' = "disabled"
                 /\ masses' = m
                 /\ initial_conditions' = ic
                 /\ t' = r.t
                 /\ y' = r.y
                 /\ sizes' = sz
                 /\ ani' = [exists |-> TRUE, running |-> TRUE, frame |-> 0]
                 /\ IF d.exc = "none"
                    THEN /\ lines' = d.lines
                         /\ trails' = d.trails
                         /\ shown' = (0 :> [idx |-> d.idx, lines |-> d.lines, trails |-> d.trails])
                         /\ exc' = exc
                    ELSE /\ lines' = [b \in 1..3 |-> [xdata |-> <<>>, ydata |-> <<>>, markersize |-> 0]]
                         /\ trails' = [b \in 1..3 |-> [xdata |-> <<>>, ydata |-> <<>>]]
                         /\ shown' = <<>>
                         /\ exc' = d.exc
    /\ UNCHANGED <<gui, preview, callvars, pc>>

\* update that also rebinds y to the columns drawn so far
update_rebinding ==
    /\ pc = "gui"
    /\ ani.exists /\ ani.running
    /\ ani.frame <= MaxFrame
    /\ LET d == DrawFrame(ani.frame, t, y, sizes)
       IN  IF d.exc = "none"
           THEN /\ lines' = d.lines
                /\ trails' = d.trails
                /\ shown' = (ani.frame :> [idx |-> d.idx, lines |-> d.lines, trails |-> d.trails]) @@ shown
                /\ exc' = exc
                /\ y' = [r \in 1..12 |-> SubSeq(y[r], 1, d.idx + 1)]
           ELSE /\ exc' = d.exc
                /\ UNCHANGED <<lines, trails, shown, y>>
    /\ ani' = [ani EXCEPT !.frame = @ + 1]
    /\ UNCHANGED <<gui, preview, start_button, masses, initial_conditions, t,
                   sizes, callvars, pc>>

\* the timer fires: FuncAnimation takes the next frame number and calls
\* update(frame)
update ==
    /\ pc = "gui"
    /\ ani.exists /\ ani.running
    /\ ani.frame <= MaxFrame
    /\ LET d == DrawFrame(ani.frame, t, y, sizes)
       IN  IF d.exc = "none"
           THEN /\ lines' = d.lines
                /\ trails' = d.trails
                /\ shown' = (ani.frame :> [idx |-> d.idx, lines |-> d.lines, trails |-> d.trails]) @@ shown
                /\ exc' = exc
           ELSE /\ exc' = d.exc
                /\ UNCHANGED <<lines, trails, shown>>
    /\ ani' = [ani EXCEPT !.frame = @ + 1]
    /\ UNCHANGED <<gui, preview, start_button, masses, initial_conditions, t, y,
                   sizes, callvars, pc>>

\* pause that drops the animation instead of stopping its timer
pause_dropping ==
    /\ pc = "gui"
    /\ ani' = None
    /\ UNCHANGED <<gui, preview, start_button, masses, initial_conditions, t, y,
                   sizes, lines, trails, shown, exc, callvars, pc>>

pause_simulation ==
    /\ pc = "gui"
    /\ ani' = IF ani.exists THEN [ani EXCEPT !.running = FALSE] ELSE ani
    /\ UNCHANGED <<gui, preview, start_button, masses, initial_conditions, t, y,
                   sizes, lines, trails, shown, exc, callvars, pc>>

resume_simulation ==
    /\ pc = "gui"
    /\ ani' = IF ani.exists THEN [ani EXCEPT !.running = TRUE] ELSE ani
    /\ UNCHANGED <<gui, preview, start_button, masses, initial_conditions, t, y,
                   sizes, lines, trails, shown, exc, callvars, pc>>

clear_simulation ==
    /\ pc = "gui"
    /\ ani' = None
    /\ start_button' = "normal"
    /\ preview' = InitialPositions(gui)
    /\ UNCHANGED <<gui, masses, initial_conditions, t, y, sizes, lines, trails,
                   shown, exc, callvars, pc>>

\* no direct call in progress
NoCall ==
    /\ arg_t = 0
    /\ arg_y = InitialConditions(Defaults)
    /\ arg_masses = <<1, 1, 1>>
    /\ arg_t_span = TimeSpan
    /\ arg_t_eval = TimeGrid
    /\ ret = <<>>
    /\ rs = [raised |-> "none", nfev |-> 0, t |-> <<>>, y |-> <<>>]

\* the state create_gui builds before root.mainloop()
GuiInit ==
    /\ gui = Defaults
    /\ preview = InitialPositions(Defaults)
    /\ start_button = "normal"
    /\ ani = None
    /\ masses = <<>>
    /\ initial_conditions = <<>>
    /\ t = <<>>
    /\ y = <<>>
    /\ sizes = <<>>
    /\ lines = <<>>
    /\ trails = <<>>
    /\ shown = <<>>
    /\ exc = "none"

Init == GuiInit /\ NoCall /\ pc = "gui"

Next ==
    \/ move_slider
    \/ start_simulation
    \/ update
    \/ pause_simulation
    \/ resume_simulation
    \/ clear_simulation

Spec == Init /\ [][Next]_vars


\* ------------------------------------------- direct calls of the functions
Lattice == (-MaxCoord)..MaxCoord

\* arguments of three_body_equations: every placement of the three bodies on
\* the lattice (coincident ones included), with the default velocities and
\* equal masses at t = 0 or with unequal velocities and masses at a later t
EqSettings == {[t |-> 0, v |-> <<0, 1, 0, -1, 1, 0>>, m |-> <<1, 1, 1>>],
               [t |-> 5, v |-> <<1, -2, 3, -4, 5, 2>>, m |-> <<1, 2, 3>>]}

EqInit ==
    /\ GuiInit
    /\ pc = "call"
    /\ \E p \in [1..6 -> Lattice] : \E e \in EqSettings :
          /\ arg_t = e.t
          /\ arg_y = p \o e.v
          /\ arg_masses = e.m
    /\ arg_t_span = TimeSpan
    /\ arg_t_eval = TimeGrid
    /\ ret = <<>>
    /\ rs = [raised |-> "none", nfev |-> 0, t |-> <<>>, y |-> <<>>]

\* three_body_equations(t, y, masses) is called and returns
call_three_body_equations ==
    /\ pc = "call"
    /\ ret' = three_body_equations(arg_t, arg_y, arg_masses)
    /\ pc' = "done"
    /\ UNCHANGED <<guivars, arg_t, arg_y, arg_masses, arg_t_span, arg_t_eval, rs>>

SpecEq == EqInit /\ [][call_three_body_equations]_vars

\* arguments of run_simulation: valid and invalid configurations
RunStates == {InitialConditions(Defaults),
              <<0, 0, 1, 0, 0, 1, 1, 0, 0, 1, 0, 0>>,
              <<1, 0, 1, 0, 0, 1, 0, 1, 0, -1, 1, 0>>}
RunMasses == {<<1, 1, 1>>, <<1, 2, 3>>, <<0, 1, 1>>, <<1, -1, 2>>}
RunSpans == {<<0, 2>>, <<1, 1>>, <<2, 0>>}
RunTimes == {<<>>, <<0, 1, 2>>, <<0, 2>>, <<1, 2>>, <<0, 2, 1>>, <<0, 1, 1>>,
             <<2, 1, 0>>, <<1>>, <<0, 3>>}

RunInit ==
    /\ GuiInit
    /\ pc = "call"
    /\ arg_t = 0
    /\ arg_y \in RunStates
    /\ arg_masses \in RunMasses
    /\ arg_t_span \in RunSpans
    /\ arg_t_eval \in RunTimes
    /\ ret = <<>>
    /\ rs = [raised |-> "none", nfev |-> 0, t |-> <<>>, y |-> <<>>]

\* run_simulation(masses, initial_conditions, t_span, t_eval) is called and
\* returns or raises
call_run_simulation ==
    /\ pc = "call"
    /\ rs' \in run_simulation(arg_masses, arg_y, arg_t_span, arg_t_eval)
    /\ pc' = "done"
    /\ UNCHANGED <<guivars, arg_t, arg_y, arg_masses, arg_t_span, arg_t_eval, ret>>

SpecRun == RunInit /\ [][call_run_simulation]_vars


\* the event loop and the direct calls of run_simulation together
SpecAll == (Init \/ RunInit) /\ [][Next \/ call_run_simulation]_vars

\* ----------------------------------------------------------------- claims
\* the step in which start_simulation runs
StartStep == start_button = "normal" /\ start_button' = "disabled"
\* the step in which clear_simulation drops an animation
ClearStep == ani.exists /\ ani' = None /\ start_button' = "normal"

C2_PlaybackPeriodic ==
    /\ \A f \in DOMAIN shown : \A g \in DOMAIN shown :
          g = f + Len(t) => shown[g].lines = shown[f].lines
    /\ \A f \in DOMAIN shown :
          \E k \in 1..Len(t) : \A b \in 1..3 :
             /\ shown[f].lines[b].xdata = <<y[2 * b - 1][k]>>
             /\ shown[f].lines[b].ydata = <<y[2 * b][k]>>

\* C2 witness: two frames one period apart were drawn on a trajectory whose
\* samples differ
C2_Witness ==
    /\ Len(t) >= 2
    /\ y[1][1] # y[1][2]
    /\ \E f \in DOMAIN shown : f % Len(t) = 1 /\ (f + Len(t)) \in DOMAIN shown

\* C9: the trail drawn for body b at frame f is the position history of b
\* from sample 0 to idx = f mod len(t) inclusive: idx + 1 points, between 1
\* and len(t), ending at the marker of b; at idx = 0 it is the single sample 0.
C9_TrailIsHistory ==
    \A f \in DOMAIN shown : \A b \in 1..3 :
       LET e == shown[f]
           idx == f % Len(t)
       IN  /\ Len(e.trails[b].xdata) = idx + 1
           /\ Len(e.trails[b].ydata) = idx + 1
           /\ 1 <= Len(e.trails[b].xdata) /\ Len(e.trails[b].xdata) <= Len(t)
           /\ \A c \in 1..(idx + 1) :
                 /\ e.trails[b].xdata[c] = y[2 * b - 1][c]
                 /\ e.trails[b].ydata[c] = y[2 * b][c]
           /\ <<e.trails[b].xdata[idx + 1]>> = e.lines[b].xdata
           /\ <<e.trails[b].ydata[idx + 1]>> = e.lines[b].ydata
           /\ (idx = 0 => e.trails[b].xdata = <<y[2 * b - 1][1]>>)

\* C9 witness: playback has wrapped: a frame with the full trail is followed
\* by a frame whose trail is the single sample 0
C9_Witness ==
    /\ Len(t) = NumSamples
    /\ \E f \in DOMAIN shown :
          /\ f >= Len(t) /\ f % Len(t) = 0
          /\ (f - 1) \in DOMAIN shown
          /\ Len(shown[f - 1].trails[1].xdata) = Len(t)
          /\ Len(shown[f].trails[1].xdata) = 1
    /\ trails = shown[Len(t)].trails

\* C8: t, y, masses and sizes change only in a Start step, which installs
\* the whole trajectory before any timer frame; update, Pause, Resume (and
\* every other step) leave them as they are.
C8_TrajectoryImmutable ==
    /\ [](ani.exists => \A r \in 1..12 : Len(y[r]) = Len(t))
    /\ [][(t' # t \/ y' # y \/ masses' # masses \/ sizes' # sizes)
            => (StartStep /\ ani'.frame = 0 /\ DOMAIN shown' \subseteq {0})]_vars

\* C8 witness: frames have played, playback is paused, and the sliders have
\* moved away from the masses of the running trajectory
C8_Witness ==
    /\ ani.exists /\ ~ani.running
    /\ ani.frame >= 3
    /\ gui["mass1"] # masses[1]
    /\ sizes[1] = masses[1] * 10
    /\ Len(t) = NumSamples

\* C10: the Start button is disabled exactly when an animation exists; an
\* animation appears only in a Start step taken with the button enabled and
\* disappears only in a Clear step, which enables the button; Pause, Resume
\* and Clear without an animation leave ani None.
C10_ButtonTracksAnimation ==
    /\ []((start_button = "disabled") <=> ani.exists)
    /\ [][(~ani.exists /\ ani'.exists) => StartStep]_vars
    /\ [][(ani.exists /\ ~ani'.exists) => ClearStep]_vars
    /\ [][(start_button' # start_button) => (StartStep \/ ClearStep)]_vars
    /\ [][StartStep => (~ani.exists /\ ani'.exists)]_vars

\* C10 witness: a paused animation exists while Start is disabled
C10_Witness ==
    /\ ani.exists /\ ~ani.running
    /\ start_button = "disabled"
    /\ ani.frame = 1


\* position of body b (1, 2, 3) in a 12-slot state
Body(yy, b) == <<yy[2 * b - 1], yy[2 * b]>>

\* component ax of  mm[j] * (r_j - r_i) / |r_j - r_i|^3
Pull(yy, mm, i, j, ax) ==
    DivNormCubed(mm[j] * (Body(yy, j)[ax] - Body(yy, i)[ax]),
                 Norm2(VSub(Body(yy, j), Body(yy, i))))

\* C6: three_body_equations returns 12 slots; slots 0..5 are input slots
\* 6..11 unchanged; for a non-singular state slots 6..11 are a1, a2, a3 with
\* a_i the sum over the two other bodies j of masses[j]*(r_j - r_i)/|r_j - r_i|^3;
\* the result is the same for every t.
C6_DerivativeLayout ==
    pc = "done" =>
       /\ Len(ret) = 12
       /\ \A k \in 1..6 : ret[k] = FromInt(arg_y[k + 6])
       /\ ~Singular(arg_y) =>
             \A i \in 1..3 : \A ax \in 1..2 :
                LET j1 == CHOOSE j \in 1..3 : j # i /\ \A k \in 1..3 : k # i => j <= k
                    j2 == CHOOSE j \in 1..3 : j # i /\ j # j1
                IN  ret[6 + 2 * (i - 1) + ax] =
                       FAdd(Pull(arg_y, arg_masses, i, j1, ax),
                            Pull(arg_y, arg_masses, i, j2, ax))
       /\ three_body_equations(arg_t + 1, arg_y, arg_masses) = ret

\* C6 witness: a non-singular state with three different masses was
\* evaluated at a time other than 0 and body 1 is accelerated
C6_Witness ==
    /\ pc = "done"
    /\ ~Singular(arg_y)
    /\ arg_masses = <<1, 2, 3>>
    /\ arg_t = 5
    /\ ret[7] # FZero
    /\ ret[1] = FromInt(1)

C4_CollisionRaises ==
    (pc = "done" /\ Singular(arg_y)) =>
       (exc = "CollisionSingularity" /\ ~HasNaN(ret))

\* a configuration the integrator contract calls invalid
InvalidConfiguration ==
    \/ \E b \in 1..3 : arg_masses[b] <= 0
    \/ Len(arg_t_eval) = 0
    \/ \E k \in 1..(Len(arg_t_eval) - 1) : arg_t_eval[k + 1] <= arg_t_eval[k]
    \/ arg_t_span[1] >= arg_t_span[2]

\* a configuration the integrator contract calls valid: positive masses,
\* bodies apart, t_start < t_end, evaluation times increasing within the span
ValidConfiguration ==
    /\ ~InvalidConfiguration
    /\ ~Singular(arg_y)
    /\ arg_t_eval[1] >= arg_t_span[1]
    /\ arg_t_eval[Len(arg_t_eval)] <= arg_t_span[2]

\* C3 as claimed: an invalid configuration handed to run_simulation is
\* rejected with an error before any derivative is evaluated.
C3_InvalidRejected ==
    (pc = "done" /\ InvalidConfiguration) =>
       (rs.raised # "none" /\ rs.nfev = 0)

\* the 12-slot order: x1,y1,x2,y2,x3,y3,vx1,vy1,vx2,vy2,vx3,vy3
SlotNames == <<"x1", "y1", "x2", "y2", "x3", "y3",
               "vx1", "vy1", "vx2", "vy2", "vx3", "vy3">>

\* C5 as claimed: for every valid configuration the first state of the
\* trajectory run_simulation returns is the initial_conditions passed in.
C5_FirstIsInitial ==
    (pc = "done" /\ ValidConfiguration /\ rs.raised = "none" /\ Len(rs.t) >= 1) =>
       \A r \in 1..12 : rs.y[r][1] = arg_y[r]

\* C5 amended: the first state of the returned trajectory is the
\* initial_conditions passed in whenever the first evaluation time is
\* t_start; start_simulation always calls it so, and the first column of its
\* y is the slider values in the order x1,y1,x2,y2,x3,y3,vx1,...,vy3.
C5_FirstIsInitialAtTStart ==
    /\ []((pc = "done" /\ ValidConfiguration /\ arg_t_eval[1] = arg_t_span[1]) =>
             /\ rs.raised = "none"
             /\ Len(rs.t) >= 1
             /\ \A r \in 1..12 : rs.y[r][1] = arg_y[r])
    /\ [](ani.exists =>
             /\ Len(t) >= 1
             /\ t[1] = TimeSpan[1]
             /\ \A r \in 1..12 : y[r][1] = initial_conditions[r])
    /\ [][StartStep =>
             \A k \in 1..12 : /\ y'[k][1] = gui[SlotNames[k]]
                              /\ initial_conditions'[k] = gui[SlotNames[k]]]_vars

\* C5 witness: Start ran on slider values other than the defaults and the
\* full trajectory came back starting at them
C5_Witness ==
    /\ ani.exists
    /\ Len(t) = NumSamples
    /\ initial_conditions # InitialConditions(Defaults)
    /\ initial_conditions[10] = 0
    /\ y[10][1] = 0
    /\ y[1][2] # y[1][1]

====
